---- MODULE Spec2Model ----
(***************************************************************************)
(* Model of the two client operations of the Morpho protocol integration:  *)
(*   deposit      (functions/deposit.ts, src/unnamed/part_002)             *)
(*   getVaultList (src/projects/morpho/src/functions/getVaultList.ts and   *)
(*                 the older copy src/unnamed/part_001)                    *)
(* Each asynchronous function is a small state machine whose states are    *)
(* its suspension points (the awaits); the signer, the contract, the chain *)
(* and the HTTP endpoint are the environment, which answers every pending  *)
(* call with any value of a bounded set.  Text (error messages, JSON) is a *)
(* sequence of one-character strings.                                      *)
(***************************************************************************)
EXTENDS Integers, Sequences, FiniteSets, TLC

(* ------------------------------ bounds -------------------------------- *)

\* concurrent deposit invocations in ConcSpec
MaxInvocations == 2
\* largest depositAmount drawn
MaxAmount == 2
\* largest args.shares an emitted event carries
MaxShares == 2
\* longest receipt.events list drawn
MaxEvents == 2
\* longest GraphQL error message drawn (characters)
MaxMsgLen == 2
\* longest GraphQL errors array drawn
MaxErrors == 2
\* longest data.vaults.items list drawn
MaxItems == 2
\* largest explicit first / skip argument drawn
MaxPage == 1

(* --------------------------- generic helpers -------------------------- *)

\* all sequences over S of length 0..n
SeqsUpTo(S, n) == UNION {[1..k -> S] : k \in 0..n}

\* does the text hay contain the text needle as a contiguous run
Contains(hay, needle) ==
    \E k \in 0..(Len(hay) - Len(needle)) :
        \A j \in 1..Len(needle) : hay[k + j] = needle[j]

\* does the text s start with the text p
StartsWith(s, p) == Len(s) >= Len(p) /\ SubSeq(s, 1, Len(p)) = p

(* ---------------------------- JS values ------------------------------- *)

\* JavaScript values: undefined, a string (an address), an ethers.BigNumber
\* object, a number
Undefined == [t |-> "undefined", s |-> "", n |-> 0]
Str(x) == [t |-> "string", s |-> x, n |-> 0]
BN(x) == [t |-> "bn", s |-> "", n |-> x]
Num(x) == [t |-> "number", s |-> "", n |-> x]

\* JavaScript truthiness, as `||` tests it: undefined, "" and 0 are falsy,
\* every object (a BigNumber too, BigNumber.from(0) included) is truthy
Truthy(v) ==
    CASE v.t = "undefined" -> FALSE
      [] v.t = "string" -> v.s # ""
      [] v.t = "bn" -> TRUE
      [] v.t = "number" -> v.n # 0

\* a thrown value: an Error object with a message, or a bare string
ErrorObj(m) == [isError |-> TRUE, msg |-> m]
ThrownStr(m) == [isError |-> FALSE, msg |-> m]

\* `error instanceof Error ? error.message : String(error)`: the message of
\* an Error; String() of a thrown string is that string, held in msg too
CauseMessage(error) == error.msg

(* ------------------------------ deposit ------------------------------- *)

\* "Deposit failed: "
DepositFailedPrefix ==
    <<"D","e","p","o","s","i","t"," ","f","a","i","l","e","d",":"," ">>

\* the catch block of deposit: new Error(`Deposit failed: ${...}`)
WrapDeposit(error) == ErrorObj(DepositFailedPrefix \o CauseMessage(error))

\* const shares = ethers.BigNumber.from(0)
ZeroShares == BN(0)

\* const data = "0x"
EmptyData == "0x"

\* `options.onBehalf || ...`: is the explicit address used
UsesExplicitOnBehalfNullish(options) == options.onBehalf.t # "undefined"
UsesExplicitOnBehalfInverted(options) == ~Truthy(options.onBehalf)
UsesExplicitOnBehalf(options) == Truthy(options.onBehalf)

\* the argument list of morphoContract.supply(...)
SupplyArgs(options, onBehalfAddress) ==
    [marketParams |-> options.marketParams,
     assets |-> options.depositAmount,
     shares |-> ZeroShares,
     onBehalf |-> onBehalfAddress,
     data |-> EmptyData]

\* receipt.events?.[0]?.args?.shares
FirstEventShares(receipt) ==
    IF ~receipt.hasEvents THEN Undefined
    ELSE IF Len(receipt.events) = 0 THEN Undefined
    ELSE IF ~receipt.events[1].hasArgs THEN Undefined
    ELSE receipt.events[1].shares

\* return { assets, shares: receipt.events?.[0]?.args?.shares || shares }
DepositResultLastEvent(assets, shares, receipt) ==
    [assets |-> assets,
     shares |-> IF receipt.hasEvents /\ Len(receipt.events) > 0
                   /\ receipt.events[Len(receipt.events)].hasArgs
                   /\ Truthy(receipt.events[Len(receipt.events)].shares)
                THEN receipt.events[Len(receipt.events)].shares
                ELSE shares]
DepositResult(assets, shares, receipt) ==
    [assets |-> assets,
     shares |-> IF Truthy(FirstEventShares(receipt))
                THEN FirstEventShares(receipt)
                ELSE shares]

\* the contract (through the signer) takes one more supply transaction
SubmitSupplyDedup(calls, args) ==
    IF \E k \in 1..Len(calls) : calls[k] = args THEN calls
    ELSE Append(calls, args)
SubmitSupply(calls, args) == Append(calls, args)

(* inputs of the deposit path *)

Invocations == 1..MaxInvocations
SignerAddress == Str("0xS")
MarketParamsSet == {"M1", "M2"}
OnBehalfSet == {Undefined, Str(""), Str("0xB")}
DepositOptionsSet ==
    [marketParams : MarketParamsSet,
     depositAmount : {BN(a) : a \in 0..MaxAmount},
     onBehalf : OnBehalfSet]
EventSet ==
    {[hasArgs |-> FALSE, shares |-> Undefined],
     [hasArgs |-> TRUE, shares |-> Undefined]}
    \cup {[hasArgs |-> TRUE, shares |-> BN(x)] : x \in 0..MaxShares}
ReceiptSet ==
    {[hasEvents |-> FALSE, events |-> <<>>]}
    \cup {[hasEvents |-> TRUE, events |-> es] : es \in SeqsUpTo(EventSet, MaxEvents)}
ThrownSet == {ErrorObj(<<"e">>), ThrownStr(<<"s">>)}

\* the smaller input sets of the concurrent specification
ConcOptionsSet ==
    [marketParams : {"M1"},
     depositAmount : {BN(1), BN(2)},
     onBehalf : {Undefined, Str("0xB")}]
ConcReceiptSet ==
    {[hasEvents |-> TRUE, events |-> <<>>],
     [hasEvents |-> TRUE, events |-> <<[hasArgs |-> TRUE, shares |-> BN(1)]>>],
     [hasEvents |-> TRUE, events |-> <<[hasArgs |-> TRUE, shares |-> BN(2)]>>]}
ConcThrownSet == {ErrorObj(<<"e">>), ErrorObj(<<"f">>)}

NoOptions == [marketParams |-> "", depositAmount |-> BN(0), onBehalf |-> Undefined]
NoReceipt == [hasEvents |-> FALSE, events |-> <<>>]
Pending == [kind |-> "pending", assets |-> BN(0), shares |-> BN(0),
            error |-> ErrorObj(<<>>)]
Resolved(r) == [kind |-> "resolved", assets |-> r.assets, shares |-> r.shares,
                error |-> ErrorObj(<<>>)]
Rejected(e) == [kind |-> "rejected", assets |-> BN(0), shares |-> BN(0),
                error |-> e]

VARIABLES
    pc,           \* per invocation: where the async function is suspended
    options,      \* per invocation: the DepositOptions it was called with
    onBehalfAddress, \* per invocation: the local const onBehalfAddress
    callOf,       \* per invocation: index of its supply call in supplyCalls
    txResponse,   \* per invocation: the transaction handle it holds (0: none)
    receiptOf,    \* per invocation: the receipt its wait() yielded
    cause,        \* per invocation: the value the failing stage threw
    outcome,      \* per invocation: what reached the caller
    trace,        \* per invocation: the external calls it made, in order
    supplyCalls,  \* the contract: supply transactions submitted, in order
    vpc,          \* getVaultList: where the async function is suspended
    vimpl,        \* which of the two getVaultList.ts files is running
    vfirst,       \* the argument first as the caller passed it
    vskip,        \* the argument skip as the caller passed it
    vposts,       \* HTTP POSTs issued
    vrequest,     \* the body and header of the POST
    vstatus,      \* the HTTP status of the response (0: none, -1: not yet)
    vbody,        \* response.data of a 2xx response
    vcause,       \* the value thrown inside the try block
    voutcome      \* what reached the caller

dvars == <<pc, options, onBehalfAddress, callOf, txResponse, receiptOf, cause,
           outcome, trace, supplyCalls>>
vvars == <<vpc, vimpl, vfirst, vskip, vposts, vrequest, vstatus, vbody, vcause,
           voutcome>>
vars == <<dvars, vvars>>

\* the call of morphoContract.supply inside the try block
CallSupply(i, opts, addr) ==
    /\ supplyCalls' = SubmitSupply(supplyCalls, SupplyArgs(opts, addr))
    /\ callOf' = [callOf EXCEPT ![i] = Len(supplyCalls')]
    /\ onBehalfAddress' = [onBehalfAddress EXCEPT ![i] = addr]

\* deposit(options, signer) is called and runs to its first await: with a
\* truthy options.onBehalf that is the supply call, otherwise getAddress
Invoke(i, opts) ==
    /\ pc[i] = "idle"
    /\ options' = [options EXCEPT ![i] = opts]
    /\ IF UsesExplicitOnBehalf(opts)
       THEN /\ CallSupply(i, opts, opts.onBehalf)
            /\ pc' = [pc EXCEPT ![i] = "awaitSupply"]
            /\ trace' = [trace EXCEPT ![i] = <<"supply">>]
       ELSE /\ pc' = [pc EXCEPT ![i] = "awaitAddress"]
            /\ trace' = [trace EXCEPT ![i] = <<"getAddress">>]
            /\ UNCHANGED <<supplyCalls, callOf, onBehalfAddress>>
    /\ UNCHANGED <<txResponse, receiptOf, cause, outcome, vvars>>

\* signer.getAddress() resolves; the function goes on to the supply call
AddressResolved(i) ==
    /\ pc[i] = "awaitAddress"
    /\ CallSupply(i, options[i], SignerAddress)
    /\ pc' = [pc EXCEPT ![i] = "awaitSupply"]
    /\ trace' = [trace EXCEPT ![i] = Append(@, "supply")]
    /\ UNCHANGED <<options, txResponse, receiptOf, cause, outcome, vvars>>

\* signer.getAddress() rejects: line 119 is outside the try block, so the
\* rejection leaves deposit as it is
AddressFailed(i, e) ==
    /\ pc[i] = "awaitAddress"
    /\ cause' = [cause EXCEPT ![i] = e]
    /\ outcome' = [outcome EXCEPT ![i] = Rejected(e)]
    /\ pc' = [pc EXCEPT ![i] = "rejectedAddress"]
    /\ trace' = [trace EXCEPT ![i] = Append(@, "throw")]
    /\ UNCHANGED <<options, onBehalfAddress, callOf, txResponse, receiptOf,
                   supplyCalls, vvars>>

\* the supply call returns a transaction handle; txResponse.wait() is called
SupplyReturned(i) ==
    /\ pc[i] = "awaitSupply"
    /\ txResponse' = [txResponse EXCEPT ![i] = callOf[i]]
    /\ pc' = [pc EXCEPT ![i] = "awaitWait"]
    /\ trace' = [trace EXCEPT ![i] = Append(@, "wait")]
    /\ UNCHANGED <<options, onBehalfAddress, callOf, receiptOf, cause, outcome,
                   supplyCalls, vvars>>

\* the supply call rejects: caught and re-thrown by the catch block
SupplyFailed(i, e) ==
    /\ pc[i] = "awaitSupply"
    /\ cause' = [cause EXCEPT ![i] = e]
    /\ outcome' = [outcome EXCEPT ![i] = Rejected(WrapDeposit(e))]
    /\ pc' = [pc EXCEPT ![i] = "rejectedSupply"]
    /\ trace' = [trace EXCEPT ![i] = Append(@, "throw")]
    /\ UNCHANGED <<options, onBehalfAddress, callOf, txResponse, receiptOf,
                   supplyCalls, vvars>>

\* txResponse.wait() resolves with a receipt; the result is returned
WaitSucceeded(i, receipt) ==
    /\ pc[i] = "awaitWait"
    /\ receiptOf' = [receiptOf EXCEPT ![i] = receipt]
    /\ outcome' = [outcome EXCEPT ![i] =
                     Resolved(DepositResult(options[i].depositAmount,
                                            ZeroShares, receipt))]
    /\ pc' = [pc EXCEPT ![i] = "resolved"]
    /\ trace' = [trace EXCEPT ![i] = Append(@, "return")]
    /\ UNCHANGED <<options, onBehalfAddress, callOf, txResponse, cause,
                   supplyCalls, vvars>>

\* txResponse.wait() rejects: caught and re-thrown by the catch block
WaitFailed(i, e) ==
    /\ pc[i] = "awaitWait"
    /\ cause' = [cause EXCEPT ![i] = e]
    /\ outcome' = [outcome EXCEPT ![i] = Rejected(WrapDeposit(e))]
    /\ pc' = [pc EXCEPT ![i] = "rejectedWait"]
    /\ trace' = [trace EXCEPT ![i] = Append(@, "throw")]
    /\ UNCHANGED <<options, onBehalfAddress, callOf, txResponse, receiptOf,
                   supplyCalls, vvars>>

(* ---------------------------- getVaultList ---------------------------- *)

\* "Failed to fetch vault list: "
FetchFailedPrefix ==
    <<"F","a","i","l","e","d"," ","t","o"," ","f","e","t","c","h"," ",
      "v","a","u","l","t"," ","l","i","s","t",":"," ">>

\* "GraphQL errors: "
GraphQLErrorsPrefix ==
    <<"G","r","a","p","h","Q","L"," ","e","r","r","o","r","s",":"," ">>

\* "No data returned from the GraphQL API"
NoDataMessage ==
    <<"N","o"," ","d","a","t","a"," ","r","e","t","u","r","n","e","d",
      " ","f","r","o","m"," ","t","h","e"," ","G","r","a","p","h","Q",
      "L"," ","A","P","I">>

\* axios: "Network Error"
NetworkErrorMessage ==
    <<"N","e","t","w","o","r","k"," ","E","r","r","o","r">>

\* axios: "Request failed with status code "
StatusErrorPrefix ==
    <<"R","e","q","u","e","s","t"," ","f","a","i","l","e","d"," ","w",
      "i","t","h"," ","s","t","a","t","u","s"," ","c","o","d","e"," ">>

\* V8: "Cannot read properties of "
CannotReadPrefix ==
    <<"C","a","n","n","o","t"," ","r","e","a","d"," ","p","r","o","p",
      "e","r","t","i","e","s"," ","o","f"," ">>

\* V8: " (reading '"
ReadingInfix ==
    <<" ","(","r","e","a","d","i","n","g"," ","'">>

\* the decimal text of a natural number
RECURSIVE DecimalText(_)
DecimalText(n) ==
    LET digit == <<"0","1","2","3","4","5","6","7","8","9">>[(n % 10) + 1]
    IN IF n < 10 THEN <<digit>> ELSE Append(DecimalText(n \div 10), digit)

\* A character with no literal of its own is written by its UTF-16 code
\* unit, "U+XXXX" (upper-case hex): the control characters other than
\* \t \n \f \r, and the surrogates U+D800..U+DFFF.

\* the code unit of a control character (U+0000..U+001F), else -1
ControlCode(c) ==
    CASE c = "U+0000" -> 0 [] c = "U+0001" -> 1 [] c = "U+0002" -> 2
      [] c = "U+0003" -> 3 [] c = "U+0004" -> 4 [] c = "U+0005" -> 5
      [] c = "U+0006" -> 6 [] c = "U+0007" -> 7 [] c = "U+0008" -> 8
      [] c = "\t" -> 9 [] c = "\n" -> 10 [] c = "U+000B" -> 11
      [] c = "\f" -> 12 [] c = "\r" -> 13 [] c = "U+000E" -> 14
      [] c = "U+000F" -> 15 [] c = "U+0010" -> 16 [] c = "U+0011" -> 17
      [] c = "U+0012" -> 18 [] c = "U+0013" -> 19 [] c = "U+0014" -> 20
      [] c = "U+0015" -> 21 [] c = "U+0016" -> 22 [] c = "U+0017" -> 23
      [] c = "U+0018" -> 24 [] c = "U+0019" -> 25 [] c = "U+001A" -> 26
      [] c = "U+001B" -> 27 [] c = "U+001C" -> 28 [] c = "U+001D" -> 29
      [] c = "U+001E" -> 30 [] c = "U+001F" -> 31
      [] OTHER -> -1

HexDigitUpper(n) ==
    <<"0","1","2","3","4","5","6","7","8","9","A","B","C","D","E","F">>[n + 1]

\* the one-character string of a code unit that has no literal
CodeUnitName(n) ==
    "U+" \o HexDigitUpper(n \div 4096) \o HexDigitUpper((n \div 256) % 16)
         \o HexDigitUpper((n \div 16) % 16) \o HexDigitUpper(n % 16)

\* the surrogates by code unit, U+D800..U+DFFF
SurrogateNames == [n \in 55296..57343 |-> CodeUnitName(n)]

\* U+D800..U+DBFF and U+DC00..U+DFFF
HighSurrogates == {SurrogateNames[n] : n \in 55296..56319}
LowSurrogates == {SurrogateNames[n] : n \in 56320..57343}

Surrogates == HighSurrogates \cup LowSurrogates

\* the code unit of a surrogate
SurrogatePairs == {<<SurrogateNames[n], n>> : n \in 55296..57343}
SurrogateCode(c) == (CHOOSE p \in SurrogatePairs : p[1] = c)[2]

HexDigit(n) ==
    <<"0","1","2","3","4","5","6","7","8","9","a","b","c","d","e","f">>[n + 1]

\* the four lower-case hex digits of a surrogate's code unit
SurrogateHex(c) ==
    LET n == SurrogateCode(c)
    IN <<HexDigit(n \div 4096), HexDigit((n \div 256) % 16),
         HexDigit((n \div 16) % 16), HexDigit(n % 16)>>

\* JSON.stringify of one character inside a string: the quote and the
\* backslash get a backslash, a control character its short escape or
\* \u00xx, a surrogate standing alone \udxxx, anything else is itself
JsonEscapeCharQuotesOnly(c) ==
    CASE c = "\"" -> <<"\\", "\"">>
      [] c = "\\" -> <<"\\", "\\">>
      [] OTHER -> <<c>>
JsonEscapeChar(c) ==
    CASE c = "\"" -> <<"\\", "\"">>
      [] c = "\\" -> <<"\\", "\\">>
      [] ControlCode(c) = 8 -> <<"\\", "b">>
      [] ControlCode(c) = 9 -> <<"\\", "t">>
      [] ControlCode(c) = 10 -> <<"\\", "n">>
      [] ControlCode(c) = 12 -> <<"\\", "f">>
      [] ControlCode(c) = 13 -> <<"\\", "r">>
      [] ControlCode(c) \in (0..31) \ {8, 9, 10, 12, 13} ->
            <<"\\", "u", "0", "0", HexDigit(ControlCode(c) \div 16),
              HexDigit(ControlCode(c) % 16)>>
      [] c \in Surrogates ->
            <<"\\", "u">> \o SurrogateHex(c)
      [] OTHER -> <<c>>

\* the characters of a string, JSON-escaped (without the enclosing quotes);
\* a high surrogate followed by a low one is a pair and stays as it is
RECURSIVE JsonEscape(_)
JsonEscape(m) ==
    IF m = <<>> THEN <<>>
    ELSE IF Len(m) >= 2 /\ m[1] \in HighSurrogates /\ m[2] \in LowSurrogates
    THEN <<m[1], m[2]>> \o JsonEscape(Tail(Tail(m)))
    ELSE JsonEscapeChar(Head(m)) \o JsonEscape(Tail(m))

\* JSON.stringify({message: m})
JsonStringifyError(e) ==
    <<"{","\"","m","e","s","s","a","g","e","\"",":","\"">>
    \o JsonEscape(e.message) \o <<"\"", "}">>

RECURSIVE JsonJoin(_)
JsonJoin(errors) ==
    IF errors = <<>> THEN <<>>
    ELSE IF Len(errors) = 1 THEN JsonStringifyError(errors[1])
    ELSE JsonStringifyError(errors[1]) \o <<",">> \o JsonJoin(Tail(errors))

\* JSON.stringify(response.data.errors)
JsonStringifyErrors(errors) == <<"[">> \o JsonJoin(errors) \o <<"]">>

\* default parameter value: applies to undefined only
DefaultArgOr(v, d) == IF Truthy(v) THEN v ELSE d
DefaultArg(v, d) == IF v = Undefined THEN d ELSE v

\* the body of the axios.post call
PostRequest(first, skip) ==
    [query |-> "VAULTS_QUERY",
     variables |-> [first |-> first, skip |-> skip],
     contentType |-> "application/json"]

\* axios' default validateStatus
StatusOk(status) == status >= 200 /\ status < 300

\* the AxiosError of a failed POST (status 0: no response at all)
AxiosError(status) ==
    IF status = 0 THEN ErrorObj(NetworkErrorMessage)
    ELSE ErrorObj(StatusErrorPrefix \o DecimalText(status))

\* `response.data.errors && response.data.errors.length > 0`
HasGraphQLErrors(body) == body.hasErrors /\ Len(body.errors) > 0

\* what a try block does: throw a value or return one
Throw(e) == [thrown |-> TRUE, error |-> e, defined |-> FALSE, items |-> <<>>]
Return(v) == [thrown |-> FALSE, error |-> ErrorObj(<<>>),
              defined |-> v.defined, items |-> v.items]

\* the TypeError of reading property prop of undefined or null
TypeErrorReading(kind, prop) ==
    ErrorObj(CannotReadPrefix \o kind \o ReadingInfix \o prop \o <<"'", ")">>)

\* `response.data.data.vaults.items`
ReadItems(data) ==
    IF data.kind # "object"
    THEN Throw(TypeErrorReading(IF data.kind = "null"
                                THEN <<"n","u","l","l">>
                                ELSE <<"u","n","d","e","f","i","n","e","d">>,
                                <<"v","a","u","l","t","s">>))
    ELSE IF data.vaults.kind # "object"
    THEN Throw(TypeErrorReading(IF data.vaults.kind = "null"
                                THEN <<"n","u","l","l">>
                                ELSE <<"u","n","d","e","f","i","n","e","d">>,
                                <<"i","t","e","m","s">>))
    ELSE Return(data.vaults.items)

\* throw new Error(`GraphQL errors: ${JSON.stringify(response.data.errors)}`)
GraphQLErrorsThrown(body) ==
    Throw(ErrorObj(GraphQLErrorsPrefix \o JsonStringifyErrors(body.errors)))

\* the try block of src/functions/getVaultList.ts after the POST returned
TryBodyFunctions(body) ==
    IF HasGraphQLErrors(body) THEN GraphQLErrorsThrown(body)
    ELSE IF body.data.kind # "object" THEN Throw(ErrorObj(NoDataMessage))
    ELSE ReadItems(body.data)

\* the try block of the older getVaultList.ts after the POST returned
TryBodyPart001(body) ==
    IF HasGraphQLErrors(body) THEN GraphQLErrorsThrown(body)
    ELSE ReadItems(body.data)

TryBody(impl, body) ==
    IF impl = "functions" THEN TryBodyFunctions(body) ELSE TryBodyPart001(body)

\* the catch block: new Error(`Failed to fetch vault list: ${...}`)
WrapFetch(error) == ErrorObj(FetchFailedPrefix \o CauseMessage(error))

(* inputs of getVaultList *)

Impls == {"functions", "part_001"}
PageArgs == {Undefined} \cup {Num(n) : n \in 0..MaxPage}
Statuses == {0, 200, 201, 404, 500}
MsgChars == {"a", "\"", "\\", "\n", "U+0001", "U+D83D", "U+DE00"}
Messages == SeqsUpTo(MsgChars, MaxMsgLen)
\* errors arrays: one entry with any message, or several entries, the first
\* with a short message and the further ones with the message "a"
ErrorArrays ==
    {<<>>} \cup {<<[message |-> m]>> : m \in Messages}
    \cup {[k \in 1..n |-> [message |-> IF k = 1 THEN m ELSE <<"a">>]] :
            n \in 2..MaxErrors, m \in {<<>>, <<"a">>, <<"\"">>, <<"\n">>}}
VaultOne ==
    [address |-> "0xVaultAddress1", name |-> "Vault One", symbol |-> "VLT1",
     whitelisted |-> TRUE,
     asset |-> [address |-> "0xAssetAddress1", name |-> "Asset One",
                symbol |-> "AST1", decimals |-> 18],
     dailyApys |-> <<[apy |-> 123]>>,
     warnings |-> <<[level |-> "low"]>>,
     liquidity |-> [underlying |-> 100, usd |-> 1000],
     chain |-> [id |-> 1, network |-> "Ethereum", currency |-> "ETH"]]
VaultTwo ==
    [address |-> "0xVaultAddress2", name |-> "Vault Two", symbol |-> "VLT2",
     whitelisted |-> FALSE,
     asset |-> [address |-> "0xAssetAddress2", name |-> "Asset Two",
                symbol |-> "AST2", decimals |-> 6],
     dailyApys |-> <<>>,
     warnings |-> <<>>,
     liquidity |-> [underlying |-> 0, usd |-> 0],
     chain |-> [id |-> 8453, network |-> "Base", currency |-> "ETH"]]
ItemLists == SeqsUpTo({VaultOne, VaultTwo}, MaxItems)
NoItems == [defined |-> FALSE, items |-> <<>>]
NoVaults == [kind |-> "undefined", items |-> NoItems]
VaultsValues ==
    {NoVaults, [kind |-> "null", items |-> NoItems],
     [kind |-> "object", items |-> NoItems]}
    \cup {[kind |-> "object", items |-> [defined |-> TRUE, items |-> l]] :
            l \in ItemLists}
DataValues ==
    {[kind |-> "undefined", vaults |-> NoVaults],
     [kind |-> "null", vaults |-> NoVaults]}
    \cup {[kind |-> "object", vaults |-> v] : v \in VaultsValues}
\* data beside a non-empty errors array: none, or a partial result
ErrorDataValues ==
    {[kind |-> "undefined", vaults |-> NoVaults],
     [kind |-> "object",
      vaults |-> [kind |-> "object",
                  items |-> [defined |-> TRUE, items |-> <<VaultOne>>]]]}
Bodies ==
    {[hasErrors |-> FALSE, errors |-> <<>>, data |-> d] : d \in DataValues}
    \cup {[hasErrors |-> TRUE, errors |-> <<>>, data |-> d] : d \in DataValues}
    \cup {[hasErrors |-> TRUE, errors |-> e, data |-> d] :
            e \in ErrorArrays \ {<<>>}, d \in ErrorDataValues}

NoBody == [hasErrors |-> FALSE, errors |-> <<>>,
           data |-> [kind |-> "undefined", vaults |-> NoVaults]]
NoRequest == [query |-> "", variables |-> [first |-> Undefined, skip |-> Undefined],
              contentType |-> ""]
VPending == [kind |-> "pending", defined |-> FALSE, items |-> <<>>,
             error |-> ErrorObj(<<>>)]

\* getVaultList(first, skip) is called and runs to `await axios.post(...)`
CallGetVaultList(impl, first, skip) ==
    /\ vpc = "idle"
    /\ vimpl' = impl
    /\ vfirst' = first
    /\ vskip' = skip
    /\ vrequest' = PostRequest(DefaultArg(first, Num(1000)),
                               DefaultArg(skip, Num(0)))
    /\ vposts' = vposts + 1
    /\ vpc' = "awaitPost"
    /\ UNCHANGED <<vstatus, vbody, vcause, voutcome, dvars>>

\* the POST fails (no response, or a status outside 2xx): axios rejects and
\* the catch block re-throws
PostFailed(status) ==
    /\ vpc = "awaitPost"
    /\ ~StatusOk(status)
    /\ vstatus' = status
    /\ vcause' = AxiosError(status)
    /\ voutcome' = [kind |-> "rejected", defined |-> FALSE, items |-> <<>>,
                    error |-> WrapFetch(AxiosError(status))]
    /\ vpc' = "rejected"
    /\ UNCHANGED <<vimpl, vfirst, vskip, vrequest, vposts, vbody, dvars>>

\* the POST returns a 2xx response with the given body; the rest of the try
\* block runs, and the catch block if it throws
PostReturned(status, body) ==
    /\ vpc = "awaitPost"
    /\ StatusOk(status)
    /\ vstatus' = status
    /\ vbody' = body
    /\ LET r == TryBody(vimpl, body) IN
       IF r.thrown
       THEN /\ vcause' = r.error
            /\ voutcome' = [kind |-> "rejected", defined |-> FALSE,
                            items |-> <<>>, error |-> WrapFetch(r.error)]
            /\ vpc' = "rejected"
       ELSE /\ vcause' = vcause
            /\ voutcome' = [kind |-> "resolved", defined |-> r.defined,
                            items |-> r.items, error |-> ErrorObj(<<>>)]
            /\ vpc' = "resolved"
    /\ UNCHANGED <<vimpl, vfirst, vskip, vrequest, vposts, dvars>>

DepositInit ==
    /\ pc = [i \in Invocations |-> "idle"]
    /\ options = [i \in Invocations |-> NoOptions]
    /\ onBehalfAddress = [i \in Invocations |-> Undefined]
    /\ callOf = [i \in Invocations |-> 0]
    /\ txResponse = [i \in Invocations |-> 0]
    /\ receiptOf = [i \in Invocations |-> NoReceipt]
    /\ cause = [i \in Invocations |-> ErrorObj(<<>>)]
    /\ outcome = [i \in Invocations |-> Pending]
    /\ trace = [i \in Invocations |-> <<>>]
    /\ supplyCalls = <<>>

VaultIdle ==
    /\ vpc = "idle"
    /\ vimpl = "functions"
    /\ vfirst = Undefined
    /\ vskip = Undefined
    /\ vposts = 0
    /\ vrequest = NoRequest
    /\ vstatus = -1
    /\ vbody = NoBody
    /\ vcause = ErrorObj(<<>>)
    /\ voutcome = VPending

Init == DepositInit /\ VaultIdle

\* one deposit invocation, every input
Next ==
    \/ \E opts \in DepositOptionsSet : Invoke(1, opts)
    \/ AddressResolved(1)
    \/ \E e \in ThrownSet : AddressFailed(1, e)
    \/ SupplyReturned(1)
    \/ \E e \in ThrownSet : SupplyFailed(1, e)
    \/ \E r \in ReceiptSet : WaitSucceeded(1, r)
    \/ \E e \in ThrownSet : WaitFailed(1, e)

Spec == Init /\ [][Next]_vars

\* MaxInvocations deposit invocations interleaved at their awaits
ConcNext ==
    \/ \E i \in Invocations, opts \in ConcOptionsSet : Invoke(i, opts)
    \/ \E i \in Invocations : AddressResolved(i)
    \/ \E i \in Invocations, e \in ConcThrownSet : AddressFailed(i, e)
    \/ \E i \in Invocations : SupplyReturned(i)
    \/ \E i \in Invocations, e \in ConcThrownSet : SupplyFailed(i, e)
    \/ \E i \in Invocations, r \in ConcReceiptSet : WaitSucceeded(i, r)
    \/ \E i \in Invocations, e \in ConcThrownSet : WaitFailed(i, e)

ConcSpec == Init /\ [][ConcNext]_vars

\* one getVaultList invocation of either implementation, every input
VaultNext ==
    \/ \E impl \in Impls, first \in PageArgs, skip \in PageArgs :
          CallGetVaultList(impl, first, skip)
    \/ \E status \in Statuses : PostFailed(status)
    \/ \E status \in Statuses, body \in Bodies : PostReturned(status, body)

VaultSpec == Init /\ [][VaultNext]_vars

(* ------------------------- deposit: properties ------------------------ *)

Failed(i) == pc[i] \in {"rejectedAddress", "rejectedSupply", "rejectedWait"}
Submitted(i) == callOf[i] > 0

\* C1: a failure of address resolution, of the supply submission or of the
\* confirmation wait reaches the caller as an Error whose message is
\* "Deposit failed: " followed by the cause's message.
C1_EveryFailureWrapped ==
    Failed(1) =>
        /\ outcome[1].kind = "rejected"
        /\ outcome[1].error = ErrorObj(DepositFailedPrefix \o CauseMessage(cause[1]))

\* C2 as stated: the one supply call carries the caller's marketParams,
\* assets = depositAmount, shares = 0, data = "0x", and onBehalf =
\* options.onBehalf whenever it was supplied, else the signer's address.
C2_SupplyArgsAsStated ==
    Submitted(1) =>
        /\ Len(supplyCalls) = 1
        /\ supplyCalls[1].marketParams = options[1].marketParams
        /\ supplyCalls[1].assets = options[1].depositAmount
        /\ supplyCalls[1].shares = BN(0)
        /\ supplyCalls[1].data = "0x"
        /\ supplyCalls[1].onBehalf =
              IF options[1].onBehalf # Undefined THEN options[1].onBehalf
              ELSE SignerAddress

\* C2 amended: as above, but onBehalf = options.onBehalf only when it was
\* supplied and is not the empty string; an absent or empty onBehalf gives
\* the address resolved from the signer.
C2_SupplyArgs ==
    Submitted(1) =>
        /\ Len(supplyCalls) = 1
        /\ supplyCalls[1].marketParams = options[1].marketParams
        /\ supplyCalls[1].assets = options[1].depositAmount
        /\ supplyCalls[1].shares = BN(0)
        /\ supplyCalls[1].data = "0x"
        /\ supplyCalls[1].onBehalf =
              IF options[1].onBehalf \notin {Undefined, Str("")}
              THEN options[1].onBehalf
              ELSE SignerAddress

C2_Witness ==
    /\ Submitted(1)
    /\ options[1].onBehalf = Undefined
    /\ options[1].depositAmount = BN(MaxAmount)
    /\ supplyCalls[1].assets = BN(MaxAmount)
    /\ supplyCalls[1].onBehalf = SignerAddress

\* C3: a resolved deposit returns assets = depositAmount and shares = X when
\* the first event of the receipt carries args.shares = X (zero included);
\* with no events, no args or no shares it returns the submitted 0; later
\* events never count.
C3_ResultFromFirstEvent ==
    pc[1] = "resolved" =>
        LET r == receiptOf[1] IN
        /\ outcome[1].kind = "resolved"
        /\ outcome[1].assets = options[1].depositAmount
        /\ IF r.hasEvents /\ Len(r.events) >= 1 /\ r.events[1].hasArgs
              /\ r.events[1].shares.t = "bn"
           THEN outcome[1].shares = r.events[1].shares
           ELSE outcome[1].shares = BN(0)

C3_Witness ==
    /\ pc[1] = "resolved"
    /\ Len(receiptOf[1].events) = 2
    /\ receiptOf[1].events[1] = [hasArgs |-> TRUE, shares |-> BN(0)]
    /\ receiptOf[1].events[2] = [hasArgs |-> TRUE, shares |-> BN(1)]
    /\ outcome[1].shares = BN(0)
    /\ outcome[1].assets = BN(1)

\* the orders of external calls one invocation can make
TracesAllowed ==
    {<<>>,
     <<"getAddress">>, <<"getAddress", "throw">>,
     <<"getAddress", "supply">>, <<"getAddress", "supply", "throw">>,
     <<"getAddress", "supply", "wait">>,
     <<"getAddress", "supply", "wait", "throw">>,
     <<"getAddress", "supply", "wait", "return">>,
     <<"supply">>, <<"supply", "throw">>, <<"supply", "wait">>,
     <<"supply", "wait", "throw">>, <<"supply", "wait", "return">>}

Did(i, step) == \E k \in 1..Len(trace[i]) : trace[i][k] = step

StepOrder(i) ==
    /\ trace[i] \in TracesAllowed
    /\ Did(i, "supply") => Submitted(i)
    /\ Did(i, "wait") => txResponse[i] # 0 /\ txResponse[i] = callOf[i]
    /\ pc[i] = "rejectedSupply" => ~Did(i, "wait")
    /\ outcome[i].kind = "resolved" =>
          /\ Did(i, "supply") /\ Did(i, "wait")
          /\ trace[i][Len(trace[i])] = "return"
          /\ pc[i] = "resolved"
    /\ Did(i, "return") => outcome[i].kind = "resolved"

\* C9 as stated: the steps of one invocation come in the fixed order, each
\* at most once, and getAddress is called only when options.onBehalf is not
\* supplied.
C9_StepOrderAsStated ==
    /\ StepOrder(1)
    /\ Did(1, "getAddress") => options[1].onBehalf = Undefined

\* C9 amended: the same order, and getAddress is called only when
\* options.onBehalf is not supplied or is the empty string.
C9_StepOrder ==
    /\ StepOrder(1)
    /\ Did(1, "getAddress") => options[1].onBehalf \in {Undefined, Str("")}

C9_Witness ==
    /\ trace[1] = <<"getAddress", "supply", "wait", "return">>
    /\ options[1].onBehalf = Str("")
    /\ outcome[1].kind = "resolved"

\* C7: interleaved invocations each submit their own supply transaction
\* exactly once (as many submissions as invocations that got past address
\* resolution, none shared), and each outcome is that of the invocation's own
\* arguments, own transaction and own receipt or failure.
C7_Independent ==
    /\ Len(supplyCalls) = Cardinality({i \in Invocations : Submitted(i)})
    /\ \A i \in Invocations :
          /\ pc[i] \notin {"idle", "awaitAddress", "rejectedAddress"}
                => Submitted(i)
          /\ Submitted(i) =>
                /\ callOf[i] \in 1..Len(supplyCalls)
                /\ supplyCalls[callOf[i]].assets = options[i].depositAmount
                /\ \A j \in Invocations \ {i} : callOf[j] # callOf[i]
          /\ pc[i] = "resolved" =>
                /\ txResponse[i] = callOf[i]
                /\ outcome[i].assets = options[i].depositAmount
                /\ outcome[i].shares =
                      IF Len(receiptOf[i].events) >= 1
                      THEN receiptOf[i].events[1].shares ELSE BN(0)
          /\ Failed(i) =>
                /\ outcome[i].kind = "rejected"
                /\ outcome[i].error \in
                      {cause[i], ErrorObj(DepositFailedPrefix \o cause[i].msg)}

C7_Witness ==
    /\ \A i \in Invocations : pc[i] = "resolved"
    /\ \A i \in Invocations : options[i] = options[1]
    /\ Len(supplyCalls) = MaxInvocations
    /\ supplyCalls[1] = supplyCalls[2]
    /\ outcome[1].shares # outcome[2].shares

(* ----------------------- getVaultList: properties --------------------- *)

VDone == vpc \in {"resolved", "rejected"}
GotBody == VDone /\ StatusOk(vstatus)
ErrorsNonEmpty == vbody.hasErrors /\ Len(vbody.errors) >= 1
LoneSurrogateAt(m, k) ==
    \/ /\ m[k] \in HighSurrogates
       /\ ~(k < Len(m) /\ m[k + 1] \in LowSurrogates)
    \/ /\ m[k] \in LowSurrogates
       /\ ~(k > 1 /\ m[k - 1] \in HighSurrogates)
NeedsEscape(m) ==
    \E k \in 1..Len(m) :
        \/ m[k] \in {"\"", "\\"}
        \/ ControlCode(m[k]) >= 0
        \/ LoneSurrogateAt(m, k)
ItemsPresent ==
    /\ vbody.data.kind = "object"
    /\ vbody.data.vaults.kind = "object"
    /\ vbody.data.vaults.items.defined

\* C4 as stated: a 2xx body with a non-empty errors array makes the call
\* reject, never resolve, with a message containing the message text of the
\* first entry of errors, whether or not data is there too.
C4_FirstMessageVerbatim ==
    (GotBody /\ ErrorsNonEmpty) =>
        /\ voutcome.kind = "rejected"
        /\ Contains(voutcome.error.msg, vbody.errors[1].message)

\* C4 amended: such a call rejects, never resolves, with a message that
\* contains the JSON serialization of the errors array: the first entry's
\* message text appears JSON-escaped (a double quote or backslash preceded by
\* a backslash, a control character or lone surrogate as a backslash
\* escape), and so verbatim only when it has no such character.
C4_FirstMessageSerialized ==
    (GotBody /\ ErrorsNonEmpty) =>
        LET m == vbody.errors[1].message IN
        /\ voutcome.kind = "rejected"
        /\ StartsWith(voutcome.error.msg, FetchFailedPrefix \o GraphQLErrorsPrefix)
        /\ Contains(voutcome.error.msg, <<"\"">> \o JsonEscape(m) \o <<"\"">>)
        /\ ~NeedsEscape(m) => Contains(voutcome.error.msg, m)
        /\ \A k \in 1..Len(voutcome.error.msg) :
              /\ ControlCode(voutcome.error.msg[k]) < 0
              /\ ~LoneSurrogateAt(voutcome.error.msg, k)

C4_Witness ==
    /\ GotBody /\ ErrorsNonEmpty
    /\ vbody.errors[1].message = <<"a", "\"">>
    /\ ItemsPresent /\ Len(vbody.data.vaults.items.items) = 1
    /\ voutcome.kind = "rejected"
    /\ Contains(voutcome.error.msg, <<"a", "\\", "\"">>)

\* C5: a 2xx body with no data field and no non-empty errors array makes the
\* call reject with the message that no data was returned, in every
\* getVaultList implementation of the repository.
C5_NoDataMessage ==
    (GotBody /\ ~ErrorsNonEmpty /\ vbody.data.kind = "undefined") =>
        /\ voutcome.kind = "rejected"
        /\ voutcome.error.msg = FetchFailedPrefix \o NoDataMessage

\* C6: a 2xx response without errors whose data.vaults.items holds N records
\* resolves with exactly those N records in order, unchanged; the request
\* variables are the caller's first and skip, 1000 and 0 when omitted.
C6_ItemsVerbatim ==
    /\ vpc # "idle" =>
          /\ vposts = 1
          /\ vrequest.variables.first =
                (IF vfirst = Undefined THEN Num(1000) ELSE vfirst)
          /\ vrequest.variables.skip =
                (IF vskip = Undefined THEN Num(0) ELSE vskip)
    /\ (GotBody /\ ~ErrorsNonEmpty /\ ItemsPresent) =>
          LET sent == vbody.data.vaults.items.items IN
          /\ voutcome.kind = "resolved"
          /\ voutcome.defined
          /\ Len(voutcome.items) = Len(sent)
          /\ \A k \in 1..Len(sent) : voutcome.items[k] = sent[k]

C6_Witness ==
    /\ vpc = "resolved"
    /\ vfirst = Num(0) /\ vskip = Undefined
    /\ vrequest.variables = [first |-> Num(0), skip |-> Num(0)]
    /\ vbody.hasErrors /\ vbody.errors = <<>>
    /\ voutcome.items = <<VaultTwo, VaultOne>>

\* C8: every failing invocation (transport or non-2xx failure, non-empty
\* GraphQL errors, missing data, malformed data body) rejects with the
\* message "Failed to fetch vault list: " followed by the cause's message,
\* and exactly one POST is issued per invocation.
C8_EveryFailureWrapped ==
    /\ vpc # "idle" => vposts = 1
    /\ (VDone /\ (~StatusOk(vstatus) \/ ErrorsNonEmpty \/ ~ItemsPresent)) =>
          /\ voutcome.kind = "rejected"
          /\ voutcome.error = ErrorObj(FetchFailedPrefix \o vcause.msg)

\* C10: whenever the call resolves, the body contained data.vaults.items and
\* the resolved value is that sequence; a body whose data lacks vaults, or
\* whose vaults lacks items, makes the call reject.
C10_ShapeValidated ==
    /\ vpc = "resolved" =>
          /\ ItemsPresent
          /\ voutcome.defined
          /\ voutcome.items = vbody.data.vaults.items.items
    /\ (GotBody /\ ~ItemsPresent) => voutcome.kind = "rejected"

====
